---- MODULE Spec2Model ----
(***************************************************************************)
(* Model of slack_archive.py: the eligibility filter                       *)
(* (load_channels_from_csv), the batch archive loop (archive_channels) and *)
(* the notification path (get_team_tech_channel, post_notification).       *)
(*                                                                         *)
(* Four specifications share the module:                                   *)
(*   SpecLoad     the CSV pass, row by row, then the sort and the return   *)
(*   SpecArchive  the per-record verify-then-mutate loop                   *)
(*   SpecRerun    live runs of that loop repeated over the same batch,     *)
(*                against a remote that only these runs change             *)
(*   SpecNotify   the paginated channel scan and the single post           *)
(***************************************************************************)
EXTENDS Integers, Sequences, FiniteSets, TLC

VARIABLES
    \* ---- load_channels_from_csv ----
    rows,        \* the rows csv.DictReader yields for the file, in file order
    now,         \* the wall clock read by datetime.now()
    row_num,     \* rows consumed so far by the for loop
    channels,    \* the list being built; after the return, the returned list
    load_stats,  \* the load-time counter mapping
    pcLoad,      \* "loop", "return_125" (normal return) or "return_118" (except Exception)
    prev_order,  \* source rows of the list the previous invocation returned
    \* ---- archive_channels ----
    batch,       \* the records handed to archive_channels
    dry_run,     \* its dry_run argument
    pos,         \* records the for loop has taken so far
    stats,       \* the archive-time counter mapping
    archived,    \* remote state: the ids of the channels that are archived
    calls,       \* the remote calls and sleeps of this call, in order
    last,        \* the loop iteration just finished: its responses, the stats before it
    pcArchive,   \* "loop", "returned", "raised" (an exception left the function)
                 \* or "interrupted" (the process was stopped between records)
    previous,    \* how the run before this one over the batch ended ("none": no such run)
    remote0,     \* the remote state before the first run over the batch
    prior_archived, \* the channels the earlier runs over the batch archived
    \* ---- get_team_tech_channel / post_notification ----
    notify_batch, \* the records handed to post_notification
    listing,      \* remote state: the pages of the public channel listing
    cursor,       \* the page the next conversations_list call asks for (0: none)
    fetched,      \* the pages asked for so far, in order
    team_tech_id, \* what get_team_tech_channel returned (NoId: nothing yet, or None)
    message,      \* the text handed to chat_postMessage, as its lines
    post_calls,   \* chat_postMessage calls made
    notify_result, \* "running", "True", "False", or "raised"
    pcNotify      \* "scan", "post" or "done"

loadVars == <<rows, now, row_num, channels, load_stats, pcLoad, prev_order>>

archVars == <<batch, dry_run, pos, stats, archived, calls, last, pcArchive,
              previous, remote0, prior_archived>>

notifyVars == <<notify_batch, listing, cursor, fetched, team_tech_id, message,
                post_calls, notify_result, pcNotify>>

vars == <<loadVars, archVars, notifyVars>>

(***************************************************************************)
(* Bounds of the model.                                                    *)
(***************************************************************************)
MaxRows == 3
MaxBatch == 3
MaxPages == 2
MaxNotifyBatch == 60

(***************************************************************************)
(* Text values.  A flag or a name is a string; str.lower() is modelled on  *)
(* the strings the model uses.  A number field is a sequence of            *)
(* characters, parsed digit by digit as int() does.                        *)
(***************************************************************************)
Lower(s) ==
    CASE s = "General" -> "general"
      [] s = "Team-Tech" -> "team-tech"
      [] s = "True" -> "true"
      [] s = "TRUE" -> "true"
      [] s = "False" -> "false"
      [] OTHER -> s

Digits == {"0", "1", "2", "3", "4", "5", "6", "7", "8", "9"}

DigitVal(c) ==
    CASE c = "0" -> 0 [] c = "1" -> 1 [] c = "2" -> 2 [] c = "3" -> 3
      [] c = "4" -> 4 [] c = "5" -> 5 [] c = "6" -> 6 [] c = "7" -> 7
      [] c = "8" -> 8 [] c = "9" -> 9

RECURSIVE DigitsVal(_)
DigitsVal(s) ==
    IF s = <<>> THEN 0
    ELSE DigitsVal(SubSeq(s, 1, Len(s) - 1)) * 10 + DigitVal(s[Len(s)])

\* int(text): an optional sign, then one or more digits; anything else is a ValueError
IntBody(s) == IF s # <<>> /\ s[1] \in {"-", "+"} THEN Tail(s) ELSE s

IntParses(s) ==
    /\ IntBody(s) # <<>>
    /\ \A i \in 1..Len(IntBody(s)) : IntBody(s)[i] \in Digits

IntOf(s) ==
    IF s # <<>> /\ s[1] = "-" THEN 0 - DigitsVal(IntBody(s)) ELSE DigitsVal(IntBody(s))

(***************************************************************************)
(* datetime: a record of the six fields, ordered as Python orders          *)
(* datetimes, with subtraction through the proleptic ordinal of the date.  *)
(***************************************************************************)
Dt(y, mo, d, hh, mi, ss) == [y |-> y, mo |-> mo, d |-> d, hh |-> hh, mi |-> mi, ss |-> ss]

IsLeap(y) == (y % 4 = 0) /\ ((y % 100 # 0) \/ (y % 400 = 0))

DaysInMonth(y, mo) ==
    CASE mo \in {1, 3, 5, 7, 8, 10, 12} -> 31
      [] mo \in {4, 6, 9, 11} -> 30
      [] OTHER -> IF IsLeap(y) THEN 29 ELSE 28

RECURSIVE DaysBeforeMonth(_, _)
DaysBeforeMonth(y, mo) ==
    IF mo = 1 THEN 0 ELSE DaysBeforeMonth(y, mo - 1) + DaysInMonth(y, mo - 1)

DaysBeforeYear(y) ==
    LET p == y - 1 IN p * 365 + (p \div 4) - (p \div 100) + (p \div 400)

Ordinal(dt) == DaysBeforeYear(dt.y) + DaysBeforeMonth(dt.y, dt.mo) + dt.d

SecondOfDay(dt) == dt.hh * 3600 + dt.mi * 60 + dt.ss

DtLess(a, b) ==
    \/ Ordinal(a) < Ordinal(b)
    \/ Ordinal(a) = Ordinal(b) /\ SecondOfDay(a) < SecondOfDay(b)

\* (a - b).days: timedelta normalises to whole days by floor division
DeltaDays(a, b) ==
    (Ordinal(a) - Ordinal(b)) + ((SecondOfDay(a) - SecondOfDay(b)) \div 86400)

(***************************************************************************)
(* The "Last activity" text: weekday, day, month name, year, time, and     *)
(* whatever follows the time (the UTC-offset suffix), kept as characters.  *)
(***************************************************************************)
WeekdayNames == {"Mon", "Tue", "Wed", "Thu", "Fri", "Sat", "Sun"}

MonthNumber(m) ==
    CASE m = "Jan" -> 1 [] m = "Feb" -> 2 [] m = "Mar" -> 3 [] m = "Apr" -> 4
      [] m = "May" -> 5 [] m = "Jun" -> 6 [] m = "Jul" -> 7 [] m = "Aug" -> 8
      [] m = "Sep" -> 9 [] m = "Oct" -> 10 [] m = "Nov" -> 11 [] m = "Dec" -> 12
      [] OTHER -> 0

\* last_activity_str.split(' -')[0]: a tail that opens with " -" is cut off
StripOffset(t) ==
    IF Len(t.tail) >= 2 /\ t.tail[1] = " " /\ t.tail[2] = "-"
    THEN [t EXCEPT !.tail = <<>>]
    ELSE t

\* datetime.strptime(text, '%a, %d %b %Y %H:%M:%S') succeeds (no ValueError).
\* The weekday name is matched but not checked against the date.
StrptimeOk(t) ==
    /\ t.wd \in WeekdayNames
    /\ MonthNumber(t.mon) # 0
    /\ t.d >= 1 /\ t.d <= DaysInMonth(t.y, MonthNumber(t.mon))
    /\ t.hh \in 0..23 /\ t.mi \in 0..59 /\ t.ss \in 0..61
    /\ t.tail = <<>>

Strptime(t) == Dt(t.y, MonthNumber(t.mon), t.d, t.hh, t.mi, t.ss)

july_2_2025 == Dt(2025, 7, 2, 0, 0, 0)

protected_channels ==
    {"general", "random", "announcements", "compliance", "team-tech",
     "fetch", "collective-leads", "team-marketing", "team-devops"}

(***************************************************************************)
(* A row as csv.DictReader yields it.  The header is Name, ID, Members,    *)
(* Last activity, Private, Archived; a line with fewer fields than the     *)
(* header leaves the missing columns None (DictReader's restval), which    *)
(* nfields records: column k is None iff k > nfields.                      *)
(***************************************************************************)
ColumnIndex(col) ==
    CASE col = "Name" -> 1 [] col = "ID" -> 2 [] col = "Members" -> 3
      [] col = "Last activity" -> 4 [] col = "Private" -> 5 [] col = "Archived" -> 6

IsNone(row, col) == ColumnIndex(col) > row.nfields

LA(wd, d, mon, y, hh, mi, ss, tail) ==
    [wd |-> wd, d |-> d, mon |-> mon, y |-> y, hh |-> hh, mi |-> mi, ss |-> ss, tail |-> tail]

Minus0700 == <<" ", "-", "0", "7", "0", "0">>
Plus0100 == <<" ", "+", "0", "1", "0", "0">>

BaseRow ==
    [Name |-> "old-channel", ID |-> "C001", Members |-> <<"3">>,
     LastActivity |-> LA("Mon", 1, "Jun", 2025, 10, 0, 0, Minus0700),
     Private |-> "False", Archived |-> "False", nfields |-> 6]

\* The rows a source file is drawn from: rows that pass every rule, and rows
\* that differ from one of them so as to meet each exclusion or failure.
RowSet ==
    { BaseRow,
      [BaseRow EXCEPT !.Name = "quiet-channel",
                      !.LastActivity = LA("Mon", 1, "Jun", 2025, 20, 0, 0, Minus0700)],
      [BaseRow EXCEPT !.Name = "empty-channel", !.Members = <<>>,
                      !.LastActivity = LA("Tue", 1, "Jul", 2025, 23, 59, 59, <<>>)],
      [BaseRow EXCEPT !.Name = "four-channel", !.Members = <<"4">>],
      [BaseRow EXCEPT !.Private = "True",
                      !.LastActivity = LA("INVALID", 0, "DATE", 0, 0, 0, 0, <<>>)],
      [BaseRow EXCEPT !.Archived = "TRUE"],
      [BaseRow EXCEPT !.Name = "General"],
      [BaseRow EXCEPT !.Members = <<"5">>],
      [BaseRow EXCEPT !.LastActivity = LA("Wed", 2, "Jul", 2025, 0, 0, 0, Minus0700)],
      [BaseRow EXCEPT !.Members = <<"x">>, !.Private = "true"],
      [BaseRow EXCEPT !.LastActivity = LA("Mon", 1, "Jun", 2025, 10, 0, 0, Plus0100)],
      \* the line "short-row,C001,3": the last three columns are None
      [BaseRow EXCEPT !.Name = "short-row", !.nfields = 3,
                      !.LastActivity = LA("", 0, "", 0, 0, 0, 0, <<>>),
                      !.Private = "", !.Archived = ""] }

Files == UNION {[1..n -> RowSet] : n \in 0..MaxRows}

\* Clock readings: two instants of one day, either side of the time of day
\* of a last-activity stamp, so that whole-day differences can differ.
NowSet == {Dt(2025, 8, 28, 15, 0, 0), Dt(2025, 8, 28, 21, 0, 0)}

ZeroLoadStats ==
    [total |-> 0, skipped_private |-> 0, skipped_archived |-> 0,
     skipped_protected |-> 0, skipped_members |-> 0, skipped_active |-> 0,
     parse_errors |-> 0]

\* members = int(row['Members']) if row['Members'] else 0
MembersRaises(row) ==
    /\ ~IsNone(row, "Members")
    /\ row.Members # <<>>
    /\ ~IntParses(row.Members)

MembersOf(row) ==
    IF IsNone(row, "Members") \/ row.Members = <<>> THEN 0 ELSE IntOf(row.Members)

TooManyMembersOff(members) == members > 5

TooManyMembers(members) == members > 4

\* last_activity >= july_2_2025
IsRecent(last_activity) == ~DtLess(last_activity, july_2_2025)

(***************************************************************************)
(* What the loop body does with one row, in the order of the code: the     *)
(* name of the counter it increments, "append", or "error_reading" when    *)
(* an exception that is neither ValueError nor KeyError leaves the loop    *)
(* (None has no lower() or split()) and the outer handler returns [].      *)
(***************************************************************************)
RowOutcome(row) ==
    IF MembersRaises(row) THEN "parse_errors"
    ELSE IF IsNone(row, "Private") THEN "error_reading"
    ELSE IF IsNone(row, "Archived") THEN "error_reading"
    ELSE IF Lower(row.Private) = "true" THEN "skipped_private"
    ELSE IF Lower(row.Archived) = "true" THEN "skipped_archived"
    ELSE IF Lower(row.Name) \in protected_channels THEN "skipped_protected"
    ELSE IF TooManyMembers(MembersOf(row)) THEN "skipped_members"
    ELSE IF IsNone(row, "Last activity") THEN "error_reading"
    ELSE IF ~StrptimeOk(StripOffset(row.LastActivity)) THEN "parse_errors"
    ELSE IF IsRecent(Strptime(StripOffset(row.LastActivity))) THEN "skipped_active"
    ELSE "append"

\* The record appended for a surviving row.  row_num is the row's position
\* in the source: it stands for the identity of the dict object.
CandidateRecord(row, n, clock) ==
    [name |-> row.Name, id |-> row.ID, members |-> MembersOf(row),
     last_activity |-> Strptime(StripOffset(row.LastActivity)),
     days_inactive |-> DeltaDays(clock, Strptime(StripOffset(row.LastActivity))),
     row_num |-> n]

(***************************************************************************)
(* channels.sort(key=lambda x: (x['members'], -x['days_inactive'])): a     *)
(* stable sort; below 64 elements list.sort is a binary insertion sort.    *)
(***************************************************************************)
SortKeyAscending(x) == <<x.members, x.days_inactive>>

SortKey(x) == <<x.members, 0 - x.days_inactive>>

TupleLess(a, b) == a[1] < b[1] \/ (a[1] = b[1] /\ a[2] < b[2])

RECURSIVE InsertSorted(_, _)
InsertSorted(s, x) ==
    IF s = <<>> THEN <<x>>
    ELSE IF TupleLess(SortKey(x), SortKey(s[Len(s)]))
         THEN Append(InsertSorted(SubSeq(s, 1, Len(s) - 1), x), s[Len(s)])
         ELSE Append(s, x)

RECURSIVE StableSort(_)
StableSort(s) ==
    IF s = <<>> THEN <<>>
    ELSE InsertSorted(StableSort(SubSeq(s, 1, Len(s) - 1)), s[Len(s)])

RowNums(list) == [i \in 1..Len(list) |-> list[i].row_num]

NoPrev == <<0>>

(***************************************************************************)
(* Each specification runs one component; the others stay as follows.      *)
(***************************************************************************)
ZeroStats == [processed |-> 0, successful |-> 0, failed |-> 0, skipped |-> 0]

NotCalled == [kind |-> "not_called", value |-> FALSE, code |-> ""]

NoRecord == [info |-> NotCalled, arch |-> NotCalled, before |-> ZeroStats, calls_before |-> 0]

NoId == ""

LoadIdle ==
    /\ rows = <<>>
    /\ now = Dt(2025, 8, 28, 15, 0, 0)
    /\ row_num = 0
    /\ channels = <<>>
    /\ load_stats = ZeroLoadStats
    /\ pcLoad = "idle"
    /\ prev_order = NoPrev

ArchiveIdle ==
    /\ batch = <<>>
    /\ dry_run = TRUE
    /\ pos = 0
    /\ stats = ZeroStats
    /\ archived = {}
    /\ calls = <<>>
    /\ last = NoRecord
    /\ pcArchive = "idle"
    /\ previous = "none"
    /\ remote0 = {}
    /\ prior_archived = {}

NotifyIdle ==
    /\ notify_batch = <<>>
    /\ listing = <<>>
    /\ cursor = 0
    /\ fetched = <<>>
    /\ team_tech_id = NoId
    /\ message = <<>>
    /\ post_calls = 0
    /\ notify_result = "idle"
    /\ pcNotify = "idle"

(***************************************************************************)
(* load_channels_from_csv                                                  *)
(***************************************************************************)
InitLoad ==
    /\ rows \in Files
    /\ now \in NowSet
    /\ row_num = 0
    /\ channels = <<>>
    /\ load_stats = ZeroLoadStats
    /\ pcLoad = "loop"
    /\ prev_order = NoPrev
    /\ ArchiveIdle
    /\ NotifyIdle

\* One iteration of the for loop over the reader.
ReadRow ==
    /\ pcLoad = "loop"
    /\ row_num < Len(rows)
    /\ LET row == rows[row_num + 1]
           out == RowOutcome(row)
           counted == [load_stats EXCEPT !.total = @ + 1]
       IN  /\ row_num' = row_num + 1
           /\ IF out = "error_reading"
              THEN /\ channels' = <<>>
                   /\ load_stats' = counted
                   /\ pcLoad' = "return_118"
              ELSE IF out = "append"
              THEN /\ channels' = Append(channels, CandidateRecord(row, row_num + 1, now))
                   /\ load_stats' = counted
                   /\ pcLoad' = "loop"
              ELSE /\ channels' = channels
                   /\ load_stats' = [counted EXCEPT ![out] = @ + 1]
                   /\ pcLoad' = "loop"
    /\ UNCHANGED <<rows, now, prev_order>>
    /\ UNCHANGED <<archVars, notifyVars>>

\* The reader is exhausted: sort, log, return channels.
SortAndReturn ==
    /\ pcLoad = "loop"
    /\ row_num = Len(rows)
    /\ channels' = StableSort(channels)
    /\ pcLoad' = "return_125"
    /\ UNCHANGED <<rows, now, row_num, load_stats, prev_order>>
    /\ UNCHANGED <<archVars, notifyVars>>

\* Time passes between two readings of datetime.now().
Tick ==
    /\ \E t \in NowSet : DtLess(now, t) /\ now' = t
    /\ UNCHANGED <<rows, row_num, channels, load_stats, pcLoad, prev_order>>
    /\ UNCHANGED <<archVars, notifyVars>>

\* A later invocation of the tool loads the same file again (main).
LoadAgain ==
    /\ pcLoad \in {"return_125", "return_118"}
    /\ prev_order' = RowNums(channels)
    /\ row_num' = 0
    /\ channels' = <<>>
    /\ load_stats' = ZeroLoadStats
    /\ pcLoad' = "loop"
    /\ UNCHANGED <<rows, now>>
    /\ UNCHANGED <<archVars, notifyVars>>

NextLoad == ReadRow \/ SortAndReturn \/ Tick \/ LoadAgain

SpecLoad == InitLoad /\ [][NextLoad]_vars

LoadReturned == pcLoad \in {"return_125", "return_118"}

(***************************************************************************)
(* Properties of load_channels_from_csv                                    *)
(***************************************************************************)
SourceRow(rec) == rows[rec.row_num]

\* The last-activity text of a row can be parsed: the field is there and,
\* the offset suffix cut off, it matches the format.
LastActivityParses(row) ==
    /\ ~IsNone(row, "Last activity")
    /\ StrptimeOk(StripOffset(row.LastActivity))

\* C1: no record of the list is built from a row whose Private flag is
\* true, whose Archived flag is true, whose lower-cased name is protected,
\* whose member count exceeds 4 or whose last activity is on or after
\* 2025-07-02 00:00:00, whatever the row's other fields.
C1_ExcludedRowsNeverInOutput ==
    \A i \in 1..Len(channels) :
        LET rec == channels[i]
            row == SourceRow(rec)
        IN  /\ rec.name = row.Name
            /\ Lower(row.Private) # "true"
            /\ Lower(row.Archived) # "true"
            /\ Lower(row.Name) \notin protected_channels
            /\ rec.members <= 4
            /\ rec.members = MembersOf(row)
            /\ LastActivityParses(row)
            /\ rec.last_activity = Strptime(StripOffset(row.LastActivity))
            /\ DtLess(rec.last_activity, Dt(2025, 7, 2, 0, 0, 0))

\* C1 witness: a pass has returned a non-empty list from a file that also
\* holds rows excluded by two different rules.
C1_Witness ==
    /\ pcLoad = "return_125"
    /\ Len(channels) >= 1
    /\ \E i, j \in 1..Len(rows) :
          /\ Lower(rows[i].Private) = "true"
          /\ ~MembersRaises(rows[j]) /\ MembersOf(rows[j]) > 4

\* The list is in the order of the sort: member count ascending, then
\* days_inactive descending, then source order.
InSortOrder(list) ==
    \A i, j \in 1..Len(list) :
        i < j =>
            \/ list[i].members < list[j].members
            \/ /\ list[i].members = list[j].members
               /\ list[i].days_inactive > list[j].days_inactive
            \/ /\ list[i].members = list[j].members
               /\ list[i].days_inactive = list[j].days_inactive
               /\ list[i].row_num < list[j].row_num

\* C2 (as amended): the returned list is sorted ascending by member count
\* and, among equal member counts, descending by days_inactive; records
\* equal on both keys keep their source order.  The order is fixed by the
\* rows together with the days_inactive values the clock gave at load time.
C2_SortedStable == LoadReturned => InSortOrder(channels)

\* C2 witness: three records returned, two of them equal on both keys, and
\* the sort has moved a record from its source position.
C2_Witness ==
    /\ pcLoad = "return_125"
    /\ Len(channels) = 3
    /\ RowNums(channels) # <<1, 2, 3>>
    /\ \E i \in 1..2 :
          /\ channels[i].members = channels[i + 1].members
          /\ channels[i].days_inactive = channels[i + 1].days_inactive

\* C2 (as stated): sorted and stable, and the order of the returned list is
\* determined by the input alone: loading the same file again returns the
\* rows in the same order.
C2_OrderFromInputAlone ==
    LoadReturned =>
        /\ InSortOrder(channels)
        /\ prev_order # NoPrev => RowNums(channels) = prev_order

\* A row that passes every rule with its last activity before the cutoff.
PassesEveryRule(row) ==
    /\ ~MembersRaises(row)
    /\ ~IsNone(row, "Private") /\ Lower(row.Private) # "true"
    /\ ~IsNone(row, "Archived") /\ Lower(row.Archived) # "true"
    /\ Lower(row.Name) \notin protected_channels
    /\ MembersOf(row) <= 4
    /\ LastActivityParses(row)
    /\ DtLess(Strptime(StripOffset(row.LastActivity)), Dt(2025, 7, 2, 0, 0, 0))

\* A row whose member-count or last-activity field cannot be parsed.
Unparseable(row) == MembersRaises(row) \/ ~LastActivityParses(row)

Occurrences(n) == Cardinality({i \in 1..Len(channels) : channels[i].row_num = n})

\* C7: a row whose member count or last activity cannot be parsed is left
\* out of the output and does not stop the pass: when the pass returns,
\* every row of the source has been evaluated and every eligible row,
\* before or after the malformed one, is in the output.
C7_MalformedRowDoesNotStopPass ==
    /\ \A i \in 1..Len(channels) : ~Unparseable(SourceRow(channels[i]))
    /\ LoadReturned =>
          /\ row_num = Len(rows)
          /\ \A n \in 1..Len(rows) : PassesEveryRule(rows[n]) => Occurrences(n) = 1

\* C8: a public, unarchived, unprotected row with at most 4 members and a
\* parseable last activity strictly before the cutoff is in the returned
\* list exactly once; a row at or after the cutoff is not in it.
C8_HalfOpenCutoff ==
    LoadReturned =>
        \A n \in 1..Len(rows) :
            /\ PassesEveryRule(rows[n]) => Occurrences(n) = 1
            /\ ( /\ LastActivityParses(rows[n])
                 /\ ~DtLess(Strptime(StripOffset(rows[n].LastActivity)), Dt(2025, 7, 2, 0, 0, 0)) )
               => Occurrences(n) = 0

(***************************************************************************)
(* archive_channels                                                        *)
(*                                                                         *)
(* The remote is a set of archived channel ids.  conversations_info and    *)
(* conversations_archive each return, raise SlackApiError with an error    *)
(* code, or raise some other Exception.  The member-count drift warning    *)
(* and the log lines change no state of the call and are left out.         *)
(***************************************************************************)
ChannelIds == {"C001", "C002"}

ErrorCodes ==
    {"channel_not_found", "already_archived", "cant_archive_general",
     "restricted_action", "ratelimited"}

Batches == UNION {[1..n -> [id : ChannelIds]] : n \in 0..MaxBatch}

Returns(value) == [kind |-> "ok", value |-> value, code |-> ""]
ApiError(code) == [kind |-> "api_error", value |-> FALSE, code |-> code]
OtherFailure == [kind |-> "exception", value |-> FALSE, code |-> ""]

Failures == {ApiError(c) : c \in ErrorCodes} \cup {OtherFailure}

\* Every answer a remote call can give, and the answers of a remote that
\* nothing but these runs changes: there a channel is archived only by a
\* call the loop has already made, so no call reports 'already_archived'.
Answers == {Returns(TRUE), Returns(FALSE)} \cup Failures

ClosedRemoteAnswers == Answers \ {ApiError("already_archived")}

\* conversations_info(channel=id): info['channel']['is_archived'] is the remote's state
InfoResponsesStale(id) == {Returns(FALSE)} \cup Failures

InfoResponses(id) == {Returns(id \in archived)} \cup Failures

\* conversations_archive(channel=id)
ArchiveResponses == {Returns(TRUE)} \cup Failures

\* if current_state['is_archived']: stats['skipped'] += 1
OnVerifiedArchivedMiscounted(st) == [st EXCEPT !.skipped = @ + 1, !.successful = @ + 1]

OnVerifiedArchived(st) == [st EXCEPT !.skipped = @ + 1]

\* stats['successful'] += 1, in either mode
OnSuccess(st) == [st EXCEPT !.successful = @ + 1]

\* if dry_run: ... else: client.conversations_archive(...)
MutatesRemoteAlways(dry) == TRUE

MutatesRemote(dry) == ~dry

\* except SlackApiError: failed += 1, and 'already_archived' moves it to skipped
OnSlackApiErrorNoReclassify(st, code) == [st EXCEPT !.failed = @ + 1]

OnSlackApiErrorNoDecrement(st, code) ==
    LET counted == [st EXCEPT !.failed = @ + 1]
    IN  IF code = "already_archived"
        THEN [counted EXCEPT !.skipped = @ + 1]
        ELSE counted

OnSlackApiError(st, code) ==
    LET counted == [st EXCEPT !.failed = @ + 1]
    IN  IF code = "already_archived"
        THEN [counted EXCEPT !.skipped = @ + 1, !.failed = @ - 1]
        ELSE counted

\* except Exception: failed += 1
OnException(st) == [st EXCEPT !.failed = @ + 1]

\* The failures the try statement of the loop body handles.
CaughtOnlySlackApiError(kind) == kind = "api_error"

Caught(kind) == kind \in {"api_error", "exception"}

\* The stats after a failure the try statement handles.
AfterFailure(st, resp) ==
    IF resp.kind = "api_error" THEN OnSlackApiError(st, resp.code) ELSE OnException(st)

\* The remote after conversations_archive answers: archived by this call,
\* or found archived by someone else in the meantime ('already_archived').
RemoteAfterArchive(id, resp) ==
    IF resp.kind = "ok" \/ (resp.kind = "api_error" /\ resp.code = "already_archived")
    THEN archived \cup {id}
    ELSE archived

Call(op, id) == [op |-> op, id |-> id]

\* time.sleep(0.5): the last statement of the loop body
Sleep == <<Call("sleep", "")>>

InitArchive ==
    /\ batch \in Batches
    /\ dry_run \in BOOLEAN
    /\ pos = 0
    /\ stats = ZeroStats
    /\ archived \in SUBSET ChannelIds
    /\ calls = <<>>
    /\ last = NoRecord
    /\ pcArchive = "loop"
    /\ previous = "none"
    /\ remote0 = archived
    /\ prior_archived = {}
    /\ LoadIdle
    /\ NotifyIdle

\* One iteration of the for loop: the verify call, the archive call when
\* there is one, the handler of a failure, and the sleep when it is reached.
\* The remote answers each call with one of 'answers'.
ProcessRecordWith(answers) ==
    /\ pcArchive = "loop"
    /\ pos < Len(batch)
    /\ pos' = pos + 1
    /\ LET id == batch[pos + 1].id
           st == [stats EXCEPT !.processed = @ + 1]
           verify == <<Call("conversations_info", id)>>
           mutate == <<Call("conversations_archive", id)>>
           ghost(info, arch) ==
               [info |-> info, arch |-> arch, before |-> stats, calls_before |-> Len(calls)]
       IN  \E info \in InfoResponses(id) \cap answers :
             IF info.kind # "ok"
             THEN \* the verify call raised
                  /\ last' = ghost(info, NotCalled)
                  /\ archived' = archived
                  /\ IF Caught(info.kind)
                     THEN /\ stats' = AfterFailure(st, info)
                          /\ calls' = calls \o verify \o Sleep
                          /\ pcArchive' = "loop"
                     ELSE /\ stats' = st
                          /\ calls' = calls \o verify
                          /\ pcArchive' = "raised"
             ELSE IF info.value
             THEN \* already archived: count and continue, past the sleep
                  /\ last' = ghost(info, NotCalled)
                  /\ archived' = archived
                  /\ stats' = OnVerifiedArchived(st)
                  /\ calls' = calls \o verify
                  /\ pcArchive' = "loop"
             ELSE IF ~MutatesRemote(dry_run)
             THEN \* dry run: report only
                  /\ last' = ghost(info, NotCalled)
                  /\ archived' = archived
                  /\ stats' = OnSuccess(st)
                  /\ calls' = calls \o verify \o Sleep
                  /\ pcArchive' = "loop"
             ELSE \E arch \in ArchiveResponses \cap answers :
                  /\ last' = ghost(info, arch)
                  /\ archived' = RemoteAfterArchive(id, arch)
                  /\ IF arch.kind = "ok"
                     THEN /\ stats' = OnSuccess(st)
                          /\ calls' = calls \o verify \o mutate \o Sleep
                          /\ pcArchive' = "loop"
                     ELSE IF Caught(arch.kind)
                     THEN /\ stats' = AfterFailure(st, arch)
                          /\ calls' = calls \o verify \o mutate \o Sleep
                          /\ pcArchive' = "loop"
                     ELSE /\ stats' = st
                          /\ calls' = calls \o verify \o mutate
                          /\ pcArchive' = "raised"
    /\ UNCHANGED <<batch, dry_run, previous, remote0, prior_archived>>
    /\ UNCHANGED <<loadVars, notifyVars>>

ProcessRecord == ProcessRecordWith(Answers)

\* The batch is exhausted: log the stats and return them.
ReturnStats ==
    /\ pcArchive = "loop"
    /\ pos = Len(batch)
    /\ pcArchive' = "returned"
    /\ UNCHANGED <<batch, dry_run, pos, stats, archived, calls, last>>
    /\ UNCHANGED <<previous, remote0, prior_archived>>
    /\ UNCHANGED <<loadVars, notifyVars>>

NextArchive == ProcessRecord \/ ReturnStats

SpecArchive == InitArchive /\ [][NextArchive]_vars

(***************************************************************************)
(* Live runs repeated over the same batch.  The tool keeps no record of    *)
(* its progress: a run that is started again takes the batch from its      *)
(* first record, with fresh statistics.  The remote changes only through   *)
(* the archive calls of these runs.                                        *)
(***************************************************************************)
InitRerun == InitArchive /\ ~dry_run

ProcessRecordClosed == ProcessRecordWith(ClosedRemoteAnswers)

\* The process is stopped between two records (KeyboardInterrupt is not an
\* Exception: no handler of the loop catches it).
Interrupt ==
    /\ pcArchive = "loop"
    /\ pcArchive' = "interrupted"
    /\ UNCHANGED <<batch, dry_run, pos, stats, archived, calls, last>>
    /\ UNCHANGED <<previous, remote0, prior_archived>>
    /\ UNCHANGED <<loadVars, notifyVars>>

\* The operator chooses the live action again, over the same batch.
RunAgain ==
    /\ pcArchive \in {"returned", "interrupted"}
    /\ previous' = pcArchive
    /\ prior_archived' = archived \ remote0
    /\ pos' = 0
    /\ stats' = ZeroStats
    /\ calls' = <<>>
    /\ last' = NoRecord
    /\ pcArchive' = "loop"
    /\ UNCHANGED <<batch, dry_run, archived, remote0>>
    /\ UNCHANGED <<loadVars, notifyVars>>

NextRerun == ProcessRecordClosed \/ ReturnStats \/ Interrupt \/ RunAgain

SpecRerun == InitRerun /\ [][NextRerun]_vars

(***************************************************************************)
(* Properties of archive_channels                                          *)
(***************************************************************************)
ArchiveCallsSince(n) ==
    {k \in (n + 1)..Len(calls) : calls[k].op = "conversations_archive"}

VerifiedNotArchived == last.info.kind = "ok" /\ ~last.info.value

VerifiedArchived == last.info.kind = "ok" /\ last.info.value

\* C3 (as amended): with dry_run=True conversations_archive is never
\* invoked, whatever the batch and the responses, and 'successful' goes up
\* by one for each record whose conversations_info call returns and
\* reports is_archived false, and by nothing for any other record.
C3_DryRunNeverArchives ==
    dry_run =>
        /\ ArchiveCallsSince(0) = {}
        /\ pos > 0 =>
              stats.successful =
                  last.before.successful + (IF VerifiedNotArchived THEN 1 ELSE 0)

\* C3 witness: a dry run of three records has returned, with a record
\* counted in each of successful, skipped and failed.
C3_Witness ==
    /\ dry_run
    /\ pcArchive = "returned"
    /\ Len(batch) = 3
    /\ stats.successful = 1 /\ stats.skipped = 1 /\ stats.failed = 1

\* C3 (as stated): with dry_run=True conversations_archive is never invoked
\* and, for every sequence of responses, errors included, 'successful' is
\* the number of records handled so far that are not already archived.
C3_DryRunCountsEveryUnarchived ==
    dry_run =>
        /\ ArchiveCallsSince(0) = {}
        /\ stats.successful =
              Cardinality({k \in 1..pos : batch[k].id \notin archived})

\* C4: in either mode, a record whose conversations_info response reports
\* is_archived true raises 'skipped' by exactly 1, leaves 'successful' and
\* 'failed' as they were, and conversations_archive is not invoked for it.
C4_VerifiedArchivedIsSkipped ==
    VerifiedArchived =>
        /\ stats.skipped = last.before.skipped + 1
        /\ stats.successful = last.before.successful
        /\ stats.failed = last.before.failed
        /\ ArchiveCallsSince(last.calls_before) = {}

\* C4 witness: a live run has just handled, as its second record or later,
\* a record the remote reports archived.
C4_Witness ==
    /\ ~dry_run
    /\ pos >= 2
    /\ VerifiedArchived
    /\ stats.skipped >= 1

LastFailed == last.info.kind \in {"api_error", "exception"}
                 \/ last.arch.kind \in {"api_error", "exception"}

\* C5: no failure raised while a record is handled, a remote error of any
\* code or an unexpected failure, leaves the loop: the loop goes on to the
\* next record, every record is processed, and the call returns statistics
\* with processed equal to the batch length.
C5_NoEarlyStop ==
    /\ pcArchive # "raised"
    /\ stats.processed = pos
    /\ (LastFailed /\ pos < Len(batch)) => pcArchive = "loop"
    /\ pcArchive = "returned" => stats.processed = Len(batch)

\* C5 witness: a call over three records has returned after an unexpected
\* failure on the last record and a remote error before it.
C5_Witness ==
    /\ pcArchive = "returned"
    /\ Len(batch) = 3
    /\ last.info.kind = "exception"
    /\ stats.failed = 3
    /\ stats.processed = 3

\* C6: when the archive call of a record fails with 'already_archived' the
\* record is counted skipped: 'skipped' is 1 higher, 'failed' and
\* 'successful' are as before the record; any other remote error code
\* leaves 'skipped' as it was and raises 'failed' by exactly 1.
C6_AlreadyArchivedReclassified ==
    last.arch.kind = "api_error" =>
        IF last.arch.code = "already_archived"
        THEN /\ stats.skipped = last.before.skipped + 1
             /\ stats.failed = last.before.failed
             /\ stats.successful = last.before.successful
        ELSE /\ stats.skipped = last.before.skipped
             /\ stats.failed = last.before.failed + 1
             /\ stats.successful = last.before.successful

\* C6 witness: the archive call of a record has just failed with
\* 'already_archived', after a record that failed with another code.
C6_Witness ==
    /\ last.arch.kind = "api_error"
    /\ last.arch.code = "already_archived"
    /\ last.before.failed = 1
    /\ stats.failed = 1
    /\ stats.skipped = 1

SleepsSince(n) == {k \in (n + 1)..Len(calls) : calls[k].op = "sleep"}

\* C13: the sleep is executed after every record of the batch, whatever the
\* record's outcome: the calls of a record that has been handled end with
\* exactly one sleep, so that exactly one sleep lies between the remote
\* calls of any two consecutive records.
C13_SleepAfterEveryRecord ==
    (pos > 0 /\ pcArchive # "raised") =>
        /\ calls[Len(calls)].op = "sleep"
        /\ Cardinality(SleepsSince(last.calls_before)) = 1
        /\ Cardinality(SleepsSince(0)) = pos

Outcomes(st) == st.successful + st.failed + st.skipped

\* C14: every record handled without an exception escaping falls into
\* exactly one outcome: at every record boundary and at return, processed
\* equals successful + failed + skipped, none of the three outcome counters
\* is negative, and the record just handled raised their sum by exactly 1.
C14_OneOutcomePerRecord ==
    pcArchive # "raised" =>
        /\ stats.processed = Outcomes(stats)
        /\ stats.successful >= 0 /\ stats.failed >= 0 /\ stats.skipped >= 0
        /\ pos > 0 => Outcomes(stats) = Outcomes(last.before) + 1

\* C14 witness: a live run of three records has returned; the archive call
\* of its last record failed with 'already_archived' and was reclassified,
\* and each of the three outcomes has been counted once.
C14_Witness ==
    /\ ~dry_run
    /\ pcArchive = "returned"
    /\ stats.processed = 3
    /\ last.arch.code = "already_archived"
    /\ stats.successful = 1 /\ stats.failed = 1 /\ stats.skipped = 1

(***************************************************************************)
(* Properties of a repeated live run                                       *)
(***************************************************************************)
BatchIds == {batch[k].id : k \in 1..Len(batch)}

\* The record just handled names a channel an earlier run archived.
HandledPriorArchived == pos > 0 /\ batch[pos].id \in prior_archived

NoArchiveCallForPriorArchived ==
    \A k \in ArchiveCallsSince(0) : calls[k].id \notin prior_archived

NotifyListLimit == 50

ListedChannel(name, id) == [name |-> name, id |-> id]

PageSet ==
    { <<>>,
      <<ListedChannel("general", "C100")>>,
      <<ListedChannel("general", "C100"), ListedChannel("Team-Tech", "C200")>>,
      <<ListedChannel("team-tech", "C300"), ListedChannel("Team-Tech", "C200")>> }

Listings == UNION {[1..n -> PageSet] : n \in 1..MaxPages}

\* The k-th record of a batch: a prefix of a sorted candidate list.
NotifyRecord(k) ==
    [name |-> k, members |-> (k - 1) \div 16,
     last_activity |-> Dt(2025, 6, 1 + (k % 28), 10, 0, 0)]

NotifyBatches == {[k \in 1..n |-> NotifyRecord(k)] : n \in 0..MaxNotifyBatch}

MonthAbbr(mo) ==
    CASE mo = 1 -> "Jan" [] mo = 2 -> "Feb" [] mo = 3 -> "Mar" [] mo = 4 -> "Apr"
      [] mo = 5 -> "May" [] mo = 6 -> "Jun" [] mo = 7 -> "Jul" [] mo = 8 -> "Aug"
      [] mo = 9 -> "Sep" [] mo = 10 -> "Oct" [] mo = 11 -> "Nov" [] mo = 12 -> "Dec"

\* channel['last_activity'].strftime('%b %d, %Y')
StrftimeDate(dt) == [mon |-> MonthAbbr(dt.mo), d |-> dt.d, y |-> dt.y]

Min(a, b) == IF a < b THEN a ELSE b

\* channels[:50]
Listed(list) == SubSeq(list, 1, Min(Len(list), NotifyListLimit))

\* for i, channel in enumerate(channels[:50], 1): one line each
EntryLines(list) ==
    [i \in 1..Len(Listed(list)) |->
        [kind |-> "entry", i |-> i, name |-> Listed(list)[i].name,
         members |-> Listed(list)[i].members, count |-> 0,
         last_active |-> StrftimeDate(Listed(list)[i].last_activity)]]

OtherLine(kind, count) ==
    [kind |-> kind, i |-> 0, name |-> 0, members |-> 0, count |-> count,
     last_active |-> StrftimeDate(Dt(1, 1, 1, 0, 0, 0))]

\* if len(channels) > 50: "... and {len(channels) - 50} more channels"
MoreLineEager(list) ==
    IF Len(list) >= NotifyListLimit
    THEN <<OtherLine("more", Len(list) - NotifyListLimit)>>
    ELSE <<>>

MoreLine(list) ==
    IF Len(list) > NotifyListLimit
    THEN <<OtherLine("more", Len(list) - NotifyListLimit)>>
    ELSE <<>>

Compose(list) ==
    <<OtherLine("header", Len(list))>> \o EntryLines(list) \o MoreLine(list)
        \o <<OtherLine("opt_out", 0)>>

\* The first channel of a page whose lower-cased name is 'team-tech'.
Matches(page) == {k \in 1..Len(page) : Lower(page[k].name) = "team-tech"}

LastMatch(page) == CHOOSE k \in Matches(page) : \A m \in Matches(page) : k >= m

FirstMatch(page) == CHOOSE k \in Matches(page) : \A m \in Matches(page) : k <= m

\* result.get('response_metadata', {}).get('next_cursor')
NextCursor(p) == IF p < Len(listing) THEN p + 1 ELSE 0

InitNotify ==
    /\ notify_batch \in NotifyBatches
    /\ listing \in Listings
    /\ cursor = 1
    /\ fetched = <<>>
    /\ team_tech_id = NoId
    /\ message = <<>>
    /\ post_calls = 0
    /\ notify_result = "running"
    /\ pcNotify = "scan"
    /\ LoadIdle
    /\ ArchiveIdle

\* One iteration of the while loop of get_team_tech_channel: a
\* conversations_list call and the scan of the page it returns.
FetchPage ==
    /\ pcNotify = "scan"
    /\ fetched' = Append(fetched, cursor)
    /\ \E resp \in {Returns(TRUE)} \cup {ApiError(c) : c \in {"ratelimited"}} \cup {OtherFailure} :
          IF resp.kind = "ok"
          THEN IF Matches(listing[cursor]) # {}
               THEN \* return channel['id']; post_notification goes on
                    /\ team_tech_id' = listing[cursor][FirstMatch(listing[cursor])].id
                    /\ pcNotify' = "post"
                    /\ UNCHANGED <<cursor, notify_result>>
               ELSE IF NextCursor(cursor) # 0
               THEN /\ cursor' = NextCursor(cursor)
                    /\ UNCHANGED <<team_tech_id, notify_result, pcNotify>>
               ELSE \* not found: return None; post_notification returns False
                    /\ cursor' = 0
                    /\ notify_result' = "False"
                    /\ pcNotify' = "done"
                    /\ UNCHANGED team_tech_id
          ELSE IF resp.kind = "api_error"
          THEN \* except SlackApiError: return None; post_notification returns False
               /\ notify_result' = "False"
               /\ pcNotify' = "done"
               /\ UNCHANGED <<cursor, team_tech_id>>
          ELSE \* no handler in either function: the exception reaches the caller
               /\ notify_result' = "raised"
               /\ pcNotify' = "done"
               /\ UNCHANGED <<cursor, team_tech_id>>
    /\ UNCHANGED <<notify_batch, listing, message, post_calls>>
    /\ UNCHANGED <<loadVars, archVars>>

\* The rest of post_notification: compose the message, call
\* chat_postMessage once, return True, or False on SlackApiError.
PostMessage ==
    /\ pcNotify = "post"
    /\ message' = Compose(notify_batch)
    /\ post_calls' = post_calls + 1
    /\ pcNotify' = "done"
    /\ \E resp \in {Returns(TRUE)} \cup {ApiError(c) : c \in {"ratelimited"}} \cup {OtherFailure} :
          notify_result' =
              IF resp.kind = "ok" THEN "True"
              ELSE IF resp.kind = "api_error" THEN "False"
              ELSE "raised"
    /\ UNCHANGED <<notify_batch, listing, cursor, fetched, team_tech_id>>
    /\ UNCHANGED <<loadVars, archVars>>

NextNotify == FetchPage \/ PostMessage

SpecNotify == InitNotify /\ [][NextNotify]_vars

(***************************************************************************)
(* Properties of post_notification                                         *)
(***************************************************************************)
Entries == {k \in 1..Len(message) : message[k].kind = "entry"}

MoreLines == {k \in 1..Len(message) : message[k].kind = "more"}

\* C9: for a batch of n records the message enumerates exactly the first
\* min(n, 50) records, in batch order, numbered 1..min(n, 50), and holds
\* the line "... and (n - 50) more channels", after the entries, if and
\* only if n > 50.
C9_MessageListsFirstFifty ==
    message # <<>> =>
        LET n == Len(notify_batch)
            shown == IF n < 50 THEN n ELSE 50
        IN  /\ Cardinality(Entries) = shown
            /\ \A i \in 1..shown :
                  /\ message[i + 1].kind = "entry"
                  /\ message[i + 1].i = i
                  /\ message[i + 1].name = notify_batch[i].name
                  /\ message[i + 1].members = notify_batch[i].members
            /\ (MoreLines # {}) <=> (n > 50)
            /\ n > 50 => /\ MoreLines = {shown + 2}
                         /\ message[shown + 2].count = n - 50

\* C9 witness: a message for 60 records: 50 entries, then the line for
\* the 10 that are left.
C9_Witness ==
    /\ Len(notify_batch) = 60
    /\ Cardinality(Entries) = 50
    /\ message[51].kind = "entry" /\ message[51].i = 50
    /\ message[52].kind = "more" /\ message[52].count = 10

\* C10: post_notification is all-or-nothing and always returns: when the
\* destination channel is not resolved (not found, or a failure during the
\* scan) it posts nothing and returns failure; otherwise it calls
\* chat_postMessage exactly once, and a failure of that call is returned
\* as a failure result, not raised.
C10_NotifyReturnsSuccessOrFailure ==
    /\ post_calls <= 1
    /\ pcNotify = "done" =>
          /\ notify_result \in {"True", "False"}
          /\ team_tech_id = NoId => post_calls = 0 /\ notify_result = "False"
          /\ team_tech_id # NoId => post_calls = 1

(***************************************************************************)
(* Properties of get_team_tech_channel                                     *)
(***************************************************************************)
\* The name of a listed channel is 'team-tech' up to case.
IsTeamTech(ch) == ch.name \in {"team-tech", "Team-Tech"}

PageHasMatch(p) == \E k \in 1..Len(listing[p]) : IsTeamTech(listing[p][k])

\* The scan ended by exhausting the listing (the cursor ran out).
ScanNotFound == pcNotify = "done" /\ team_tech_id = NoId /\ cursor = 0

\* The scan ended because a conversations_list call raised.
ScanFailed == pcNotify = "done" /\ team_tech_id = NoId /\ cursor # 0

\* C11: pages are fetched in cursor order, each at most once; the id
\* returned is that of the first channel, in page order then in-page
\* order, named 'team-tech' up to case, and no list call follows the page
\* that holds it; with no match on any page, every page up to the one
\* without a next cursor is fetched exactly once and the result is
\* not-found; a failed page fetch ends the scan: nothing is fetched after
\* it and it is not fetched again.
C11_ScanStopsAtFirstMatch ==
    /\ fetched = [k \in 1..Len(fetched) |-> k]
    /\ Len(fetched) <= Len(listing)
    /\ \A p \in 1..(Len(fetched) - 1) : ~PageHasMatch(p)
    /\ team_tech_id # NoId =>
          LET p == Len(fetched)
          IN  \E k \in 1..Len(listing[p]) :
                 /\ IsTeamTech(listing[p][k])
                 /\ \A j \in 1..(k - 1) : ~IsTeamTech(listing[p][j])
                 /\ team_tech_id = listing[p][k].id
    /\ ScanNotFound =>
          /\ Len(fetched) = Len(listing)
          /\ \A p \in 1..Len(listing) : ~PageHasMatch(p)
    /\ ScanFailed => cursor = Len(fetched)
    /\ (pcNotify = "done" /\ PageHasMatch(Len(fetched))) => team_tech_id # NoId \/ ScanFailed

\* C11 witness: the second page holds two matching channels; the scan has
\* fetched pages 1 and 2 and returned the id of the first of the two.
C11_Witness ==
    /\ fetched = <<1, 2>>
    /\ Len(listing[2]) = 2
    /\ IsTeamTech(listing[2][1]) /\ IsTeamTech(listing[2][2])
    /\ team_tech_id = listing[2][1].id
    /\ team_tech_id # listing[2][2].id

====
